---- MODULE Spec2Model ----
(***************************************************************************)
(* Model of the SPU graph executor (spu/device/executor.cc) and of the     *)
(* sort kernel (spu/kernel/hlo/sort.cc).                                    *)
(*                                                                         *)
(* The executor is a stack machine: one frame per active runRegion call,   *)
(* one SymbolScope per frame.  The sort kernel is modelled by operators    *)
(* that follow the C++ functions, applied by row-level actions.            *)
(***************************************************************************)
EXTENDS Integers, Sequences, FiniteSets, TLC

(***************************************************************************)
(* Bounds of the executor model.                                           *)
(***************************************************************************)
\* GraphValueIds are 1..MaxId
MaxId == 3
\* runtime values are 0..MaxVal
MaxVal == 1
\* longest block body (non-terminator operations) of a top-level region
MaxOps == 2

(***************************************************************************)
(* Bounds of the sort model.                                               *)
(***************************************************************************)
\* keys of the short rows are 0..MaxKey
MaxKey == 1
\* rows of zeros and ones of every length up to MaxLen are enumerated
\* with one operand
MaxLen == 9
\* rows of every length up to ShortLen are enumerated with every operand
\* layout, and are the rows of the tensors given to Sort
ShortLen == 4
\* every arrangement of distinct keys is enumerated up to length PermLen
PermLen == 5
\* power-of-two lengths up to 2^MaxLog get a family of arrangements
MaxLog == 5

Ids == 1..MaxId
Vals == 0..MaxVal

VARIABLES
    call,       \* the top-level runRegion call: [region, params, parent]
    scopes,     \* live SymbolScopes, innermost last: [parent, symbols]
    stack,      \* active runRegion/runBlock frames, innermost last
    exStatus,   \* "idle", "running", "returned" or the failure raised
    exResults,  \* the vector returned by the last runRegion that returned
    kernels,    \* number of runKernel invocations so far
    retOuter,   \* history: the enclosing scopes as they were when the
                \* region that returned last was entered
    events      \* history: the calls, kernel invocations and terminator
                \* look-ups so far, in order

exvars ==
    <<call, scopes, stack, exStatus, exResults, kernels, retOuter, events>>

VARIABLES
    rowA,       \* values_to_sort of one row: a sequence of 1-D Values
    rowB,       \* a second row of the same length and operands
    rowJunk,    \* the word an out-of-bounds read yields
    rowPc,      \* which of the row sorts have been applied
    outPar,     \* parallelBitonicSort applied to rowA and to rowB
    outSeq,     \* sequentialBitonicSort applied to rowA and to rowB
    outPub      \* the public-path index sort applied to rowA

rowvars == <<rowA, rowB, rowJunk, rowPc, outPar, outSeq, outPub>>

VARIABLES
    sortIn,     \* the arguments of Sort: inputs, sort_dim, is_stable, vis
    inputsNow,  \* what the caller's input Values hold now
    sortPc,     \* where Sort is, or how it ended
    results,    \* the output Values
    written,    \* history: how often each element of each output was written
    sort_dim_elements,
    rows,       \* the multi-indices forEachIndex visits, in order
    rowNo,      \* rows processed so far
    oobRead,    \* history: key_shape was indexed outside [0, rank)
    lastRow     \* history: the last row processed, before and after

sortvars ==
    <<sortIn, inputsNow, sortPc, results, written, sort_dim_elements, rows, rowNo, oobRead, lastRow>>

vars == <<exvars, rowvars, sortvars>>

(***************************************************************************)
(* Operations and regions.  An operation has an opcode, operand ids, a     *)
(* result id and, for the control-flow opcode, a nested region.  The last  *)
(* operation of a well-formed block is its terminator.                     *)
(***************************************************************************)
OpConst(r, c) ==
    [kind |-> "const", operands |-> <<>>, result |-> r, val |-> c, region |-> "none"]

OpInc(a, r) ==
    [kind |-> "inc", operands |-> <<a>>, result |-> r, val |-> 0, region |-> "none"]

OpCall(name, args, r) ==
    [kind |-> "call", operands |-> args, result |-> r, val |-> 0, region |-> name]

OpReturn(args) ==
    [kind |-> "return", operands |-> args, result |-> 0, val |-> 0, region |-> "none"]

\* A region: the number of block arguments of its front block (their ids
\* are 1..nargs), its number of blocks, the operations of the front block.
Region(a, b, body) ==
    [nargs |-> a, nblocks |-> b, ops |-> body]

\* Regions attached to control-flow operations.  They bind ids that the
\* enclosing region may bind too.
NestedRegion(name) ==
    CASE name = "leaf" ->
           Region(1, 1, <<OpInc(1, 2), OpReturn(<<2>>)>>)
      [] name = "mid" ->
           Region(1, 1, <<OpConst(3, 0), OpCall("leaf", <<1>>, 2), OpReturn(<<2, 3>>)>>)
      [] name = "wide" ->
           Region(2, 1, <<OpReturn(<<2, 1>>)>>)
      [] OTHER ->
           Region(0, 1, <<OpConst(1, 1), OpReturn(<<1, MaxId>>)>>)

(***************************************************************************)
(* SymbolScope.  symbols is a function whose domain is the set of bound    *)
(* ids; parent is the index of the enclosing scope, 0 for nullptr.         *)
(***************************************************************************)
SymbolScope(parent_scope) ==
    [parent |-> parent_scope, symbols |-> <<>>]

Found(v) == [found |-> TRUE, val |-> v]
NotFound == [found |-> FALSE, val |-> 0]

\* a lookup that asks the parent chain first and its own symbols last
RECURSIVE lookupValueOutermost(_, _, _)
lookupValueOutermost(sc, s, key) ==
    LET up == IF sc[s].parent # 0
              THEN lookupValueOutermost(sc, sc[s].parent, key)
              ELSE NotFound
    IN IF up.found
       THEN up
       ELSE IF key \in DOMAIN sc[s].symbols
            THEN Found(sc[s].symbols[key])
            ELSE NotFound

\* SymbolScope::lookupValue: own symbols first, then the parent chain; a
\* miss at the end of the chain throws (NotFound).
RECURSIVE lookupValue(_, _, _)
lookupValue(sc, s, key) ==
    IF key \in DOMAIN sc[s].symbols
    THEN Found(sc[s].symbols[key])
    ELSE IF sc[s].parent # 0
         THEN lookupValue(sc, sc[s].parent, key)
         ELSE NotFound

\* A write that lands in the nearest scope of the chain that already binds
\* the key, and in the innermost scope only when none does.
RECURSIVE addValueThrough(_, _, _, _)
addValueThrough(sc, s, key, val) ==
    IF key \notin DOMAIN sc[s].symbols /\ sc[s].parent # 0
       /\ lookupValue(sc, sc[s].parent, key).found
    THEN addValueThrough(sc, sc[s].parent, key, val)
    ELSE [sc EXCEPT ![s].symbols =
             [k \in DOMAIN sc[s].symbols \cup {key} |->
                 IF k = key THEN val ELSE sc[s].symbols[k]]]

\* SymbolScope::addValue: symbols_[key] = val, in this scope only.
addValue(sc, s, key, val) ==
    [sc EXCEPT ![s].symbols =
        [k \in DOMAIN sc[s].symbols \cup {key} |->
            IF k = key THEN val ELSE sc[s].symbols[k]]]

\* the values of a list of ids as seen from scope s; <<>> entries are misses
LookupAll(sc, s, keys) ==
    [i \in 1..Len(keys) |-> lookupValue(sc, s, keys[i])]

AllFound(ls) == \A i \in 1..Len(ls) : ls[i].found

ValuesOf(ls) == [i \in 1..Len(ls) |-> ls[i].val]

(***************************************************************************)
(* runRegion, up to the point where it delegates to runBlock.              *)
(***************************************************************************)
\* for (blkarg : region.getArguments()) sscope.addValue(blkarg, params[argNumber])
RECURSIVE BindArguments(_, _, _, _, _)
BindArguments(sc, s, nargs, params, k) ==
    IF k > nargs
    THEN sc
    ELSE BindArguments(addValue(sc, s, k, params[k]), s, nargs, params, k + 1)

\* const ExecutionOptions &opts
ExecutionOptions(parallel) == [do_parallel |-> parallel]

\* an activation of runRegion/runBlock; id is stamped by the caller
Frame(region, s, params, outer, opts) ==
    [region |-> region, scope |-> s, pc |-> 1, await |-> FALSE,
     params |-> params, outer |-> outer, opts |-> opts, id |-> 0]

\* runRegion without its arity check
runRegionUnchecked(sc, st, parent_scope, region, params, opts) ==
    LET s == Len(sc) + 1
        fit == [i \in 1..region.nargs |->
                   IF i <= Len(params) THEN params[i] ELSE 0]
        bound == BindArguments(Append(sc, SymbolScope(parent_scope)), s,
                               region.nargs, fit, 1)
    IN IF region.nblocks # 1
       THEN [status |-> "MalformedRegion", scopes |-> bound, stack |-> st]
       ELSE [status |-> "running", scopes |-> bound,
             stack |-> Append(st, Frame(region, s, params, sc, opts))]

runRegion(sc, st, parent_scope, region, params, opts) ==
    IF region.nargs # Len(params)
    THEN [status |-> "ArityMismatch", scopes |-> sc, stack |-> st]
    ELSE LET s == Len(sc) + 1
             bound == BindArguments(Append(sc, SymbolScope(parent_scope)), s,
                                    region.nargs, params, 1)
         IN IF region.nblocks # 1
            THEN [status |-> "MalformedRegion", scopes |-> bound, stack |-> st]
            ELSE [status |-> "running", scopes |-> bound,
                  stack |-> Append(st, Frame(region, s, params, sc, opts))]

(***************************************************************************)
(* runBlock.  Block::without_terminator() and Block::getTerminator() are   *)
(* those of the MLIR release the executor is built against: the first      *)
(* leaves out the last operation of a non-empty block whatever it is, the  *)
(* second asserts that the block ends in a terminator and returns &back(). *)
(***************************************************************************)
\* block.without_terminator(): every operation but the last
without_terminator(ops) ==
    IF ops = <<>> THEN <<>> ELSE SubSeq(ops, 1, Len(ops) - 1)

\* block.getTerminator(): the last operation
getTerminator(ops) == ops[Len(ops)]

\* what getTerminator asserts: the block is not empty and its last
\* operation is a terminator
HasTerminator(ops) == ops # <<>> /\ ops[Len(ops)].kind = "return"

\* the terminator's operands resolved in the parent of the block's scope
runBlockResultsOuter(sc, s, ops) ==
    LookupAll(sc, IF sc[s].parent # 0 THEN sc[s].parent ELSE s,
              getTerminator(ops).operands)

\* results.emplace_back(symbols->lookupValue(operand)) for each operand
runBlockResults(sc, s, ops) ==
    LookupAll(sc, s, getTerminator(ops).operands)

\* what a non control-flow kernel writes: its result from its operands
KernelValue(op, args) ==
    IF op.kind = "const" THEN op.val ELSE (args[1] + 1) % (MaxVal + 1)

(***************************************************************************)
(* The calls the model makes.                                              *)
(***************************************************************************)
OpSet ==
    { OpConst(MaxId, 1), OpInc(1, 2), OpCall("leaf", <<1>>, 2),
      OpCall("mid", <<2>>, MaxId), OpCall("wide", <<1>>, 1) }

RECURSIVE Bodies(_)
Bodies(n) ==
    IF n = 0
    THEN {<<>>}
    ELSE Bodies(n - 1) \cup
         {Append(b, o) : b \in {c \in Bodies(n - 1) : Len(c) = n - 1}, o \in OpSet}

TermLists ==
    {<<>>} \cup {<<i>> : i \in Ids} \cup {<<i, 1>> : i \in Ids}

ParamLists ==
    {<<>>} \cup {<<v>> : v \in Vals} \cup {<<v, w>> : v \in Vals, w \in Vals}

\* regions whose block ends in a terminator, regions with two blocks, and
\* regions whose block has no terminator
TopRegions ==
    {Region(a, 1, Append(b, OpReturn(t))) :
        a \in 0..2, b \in Bodies(MaxOps), t \in TermLists}
    \cup {Region(a, 2, <<OpReturn(<<>>)>>) : a \in 0..2}
    \cup {Region(a, 1, b) : a \in 0..1, b \in Bodies(MaxOps)}

\* the caller's scope, which exists before and after the call
RootScope == [parent |-> 0, symbols |-> [k \in {MaxId} |-> MaxVal]]

\* a call by the embedder or by a control-flow kernel
Call(entry, region, params, parent, opts) ==
    [entry |-> entry, region |-> region, params |-> params,
     parent |-> parent, opts |-> opts]

\* the calls the embedder makes: runRegion with and without a request for
\* parallel execution, and runBlockParallel on short blocks
TopCalls(entry, region, parent, opts) ==
    /\ opts.do_parallel => parent = 1
    /\ entry = "runBlockParallel" => (parent = 1 /\ Len(region.ops) <= 1)

Event(e, id, pc, region, par) ==
    [e |-> e, id |-> id, pc |-> pc, region |-> region, par |-> par]

NoRegion == Region(0, 0, <<>>)

ExInit ==
    /\ \E entry \in {"runRegion", "runBlockParallel"}, r \in TopRegions,
          p \in ParamLists, q \in 0..1, o \in BOOLEAN :
          /\ TopCalls(entry, r, q, ExecutionOptions(o))
          /\ call = <<Call(entry, r, p, q, ExecutionOptions(o))>>
    /\ scopes = <<RootScope>>
    /\ stack = <<>>
    /\ exStatus = "idle"
    /\ exResults = <<>>
    /\ kernels = 0
    /\ retOuter = <<>>
    /\ events = <<>>

Failed == exStatus \notin {"idle", "running", "returned"}

Top == stack[Len(stack)]

TopOp == Top.region.ops[Top.pc]

\* a call of runRegion, by the embedder or by a control-flow kernel
RunRegion ==
    /\ ~Failed
    /\ call # <<>>
    /\ call[1].entry = "runRegion"
    /\ LET c == call[1]
           r == runRegion(scopes, stack, c.parent, c.region, c.params, c.opts)
           id == Len(events) + 1
       IN /\ scopes' = r.scopes
          /\ stack' = IF r.status = "running"
                      THEN [r.stack EXCEPT ![Len(r.stack)].id = id]
                      ELSE r.stack
          /\ exStatus' = r.status
          /\ events' = Append(events,
                               Event("runRegion", id,
                                     IF r.status = "running" THEN 1 ELSE 0,
                                     c.region, c.opts.do_parallel))
    /\ call' = <<>>
    /\ UNCHANGED <<exResults, kernels, retOuter>>
    /\ UNCHANGED <<rowvars, sortvars>>

\* a call of runBlockParallel by the embedder: YACL_THROW("TODO")
RunBlockParallel ==
    /\ ~Failed
    /\ call # <<>>
    /\ call[1].entry = "runBlockParallel"
    /\ exStatus' = "UnimplementedCapability"
    /\ events' = Append(events, Event("runBlockParallel", Len(events) + 1, 0,
                                      call[1].region, TRUE))
    /\ call' = <<>>
    /\ UNCHANGED <<scopes, stack, exResults, kernels, retOuter>>
    /\ UNCHANGED <<rowvars, sortvars>>

\* runBlock dispatches one operation of without_terminator() to runKernel,
\* a kernel that reads its operands and writes its result
RunKernel ==
    /\ exStatus = "running" /\ call = <<>> /\ stack # <<>>
    /\ ~Top.await
    /\ Top.pc <= Len(without_terminator(Top.region.ops))
    /\ TopOp.kind \in {"const", "inc"}
    /\ LET ls == LookupAll(scopes, Top.scope, TopOp.operands)
           start == Event("start", Top.id, Top.pc, NoRegion, FALSE)
           end == Event("end", Top.id, Top.pc, NoRegion, FALSE)
       IN IF AllFound(ls)
          THEN /\ scopes' = addValue(scopes, Top.scope, TopOp.result,
                                     KernelValue(TopOp, ValuesOf(ls)))
               /\ stack' = [stack EXCEPT ![Len(stack)].pc = @ + 1]
               /\ exStatus' = exStatus
               /\ events' = events \o <<start, end>>
          ELSE /\ exStatus' = "UndefinedValue"
               /\ events' = Append(events, start)
               /\ UNCHANGED <<scopes, stack>>
    /\ kernels' = kernels + 1
    /\ UNCHANGED <<call, exResults, retOuter>>
    /\ UNCHANGED <<rowvars, sortvars>>

\* runKernel on a control-flow operation: it reads its operands and calls
\* runRegion on the attached region with the current scope as parent
RunKernelCall ==
    /\ exStatus = "running" /\ call = <<>> /\ stack # <<>>
    /\ ~Top.await
    /\ Top.pc <= Len(without_terminator(Top.region.ops))
    /\ TopOp.kind = "call"
    /\ LET ls == LookupAll(scopes, Top.scope, TopOp.operands)
       IN IF AllFound(ls)
          THEN /\ call' = <<Call("runRegion", NestedRegion(TopOp.region),
                                 ValuesOf(ls), Top.scope, Top.opts)>>
               /\ stack' = [stack EXCEPT ![Len(stack)].await = TRUE]
               /\ exStatus' = exStatus
          ELSE /\ exStatus' = "UndefinedValue"
               /\ UNCHANGED <<call, stack>>
    /\ kernels' = kernels + 1
    /\ events' = Append(events, Event("start", Top.id, Top.pc, NoRegion, FALSE))
    /\ UNCHANGED <<scopes, exResults, retOuter>>
    /\ UNCHANGED <<rowvars, sortvars>>

\* the control-flow kernel resumes after its region returned: it writes the
\* first returned value as its own result, into its own scope
RunKernelCallEnd ==
    /\ exStatus = "running" /\ call = <<>> /\ stack # <<>>
    /\ Top.await
    /\ scopes' = IF exResults # <<>>
                 THEN addValue(scopes, Top.scope, TopOp.result, exResults[1])
                 ELSE scopes
    /\ stack' = [stack EXCEPT ![Len(stack)].await = FALSE,
                              ![Len(stack)].pc = @ + 1]
    /\ events' = Append(events, Event("end", Top.id, Top.pc, NoRegion, FALSE))
    /\ UNCHANGED <<call, exStatus, exResults, kernels, retOuter>>
    /\ UNCHANGED <<rowvars, sortvars>>

\* return results: runRegion returns the same vector and its scope is
\* destroyed; a look-up that misses throws
ReturnFromBlock(ls) ==
    IF AllFound(ls)
    THEN /\ exResults' = ValuesOf(ls)
         /\ retOuter' = [region |-> Top.region, params |-> Top.params,
                         outer |-> Top.outer, scope |-> scopes[Top.scope]]
         /\ scopes' = SubSeq(scopes, 1, Top.scope - 1)
         /\ stack' = SubSeq(stack, 1, Len(stack) - 1)
         /\ exStatus' = IF Len(stack) = 1 THEN "returned" ELSE "running"
    ELSE /\ exStatus' = "UndefinedValue"
         /\ UNCHANGED <<scopes, stack, exResults, retOuter>>

\* runBlock after the loop, on a block that ends in a terminator: resolve
\* the terminator's operands and return them
RunBlockReturn ==
    /\ exStatus = "running" /\ call = <<>> /\ stack # <<>>
    /\ ~Top.await
    /\ Top.pc > Len(without_terminator(Top.region.ops))
    /\ HasTerminator(Top.region.ops)
    /\ ReturnFromBlock(runBlockResults(scopes, Top.scope, Top.region.ops))
    /\ events' = Append(events, Event("term", Top.id, Len(Top.region.ops),
                                      NoRegion, FALSE))
    /\ UNCHANGED <<call, kernels>>
    /\ UNCHANGED <<rowvars, sortvars>>

\* what a vector built from the operands of a dangling Operation* may hold
StrayResults == {<<>>, <<Found(MaxVal)>>}

\* runBlock after the loop, on a block that does not end in a terminator.
\* getTerminator's assert stops the process where asserts are compiled in.
\* Elsewhere it returns &back(), which is never null: the last operation
\* is taken for the terminator, and on an empty block the pointer dangles.
\* The throw of line 93 is not reached.
RunBlockNoTerminator ==
    /\ exStatus = "running" /\ call = <<>> /\ stack # <<>>
    /\ ~Top.await
    /\ Top.pc > Len(without_terminator(Top.region.ops))
    /\ ~HasTerminator(Top.region.ops)
    /\ \/ /\ exStatus' = "crashed"
          /\ UNCHANGED <<scopes, stack, exResults, retOuter, events>>
       \/ /\ Top.region.ops # <<>>
          /\ ReturnFromBlock(runBlockResults(scopes, Top.scope, Top.region.ops))
          /\ events' = Append(events, Event("term", Top.id, Len(Top.region.ops),
                                            NoRegion, FALSE))
       \/ /\ Top.region.ops = <<>>
          /\ \E ls \in StrayResults : ReturnFromBlock(ls)
          /\ events' = Append(events, Event("term", Top.id, 0, NoRegion, FALSE))
    /\ UNCHANGED <<call, kernels>>
    /\ UNCHANGED <<rowvars, sortvars>>

\* a failure propagates to the embedder: every scope of an active
\* runRegion is destroyed on the way
Unwind ==
    /\ Failed /\ exStatus # "crashed"
    /\ Len(scopes) > 1 \/ stack # <<>>
    /\ scopes' = SubSeq(scopes, 1, 1)
    /\ stack' = <<>>
    /\ UNCHANGED <<call, exStatus, exResults, kernels, retOuter, events>>
    /\ UNCHANGED <<rowvars, sortvars>>

ExNext ==
    \/ RunRegion
    \/ RunBlockParallel
    \/ RunKernel
    \/ RunKernelCall
    \/ RunKernelCallEnd
    \/ RunBlockReturn
    \/ RunBlockNoTerminator
    \/ Unwind


(***************************************************************************)
(* Values of the sort kernel.  A Value is a buffer of words; an element    *)
(* occupies elsize consecutive words and its first word is its number.     *)
(* Positions and indices are 0-based as in the code.                       *)
(***************************************************************************)
\* a sequence given as a function, as an explicit tuple
Tuple(f) == SubSeq(f, 1, Len(f))

\* e, evaluated after x has been evaluated (statement order)
Then(x, e) == IF x = x THEN e ELSE e

Value(es, words) == [elsize |-> es, buf |-> Tuple(words)]

numel(v) == Len(v.buf) \div v.elsize

\* the number carried by element j of v
ElemVal(v, j) == v.buf[j * v.elsize + 1]

\* the words of element j of v
ElemAt(v, j) == SubSeq(v.buf, j * v.elsize + 1, (j + 1) * v.elsize)

\* hal::slice(v, {start}, {end}, {1}) of a 1-D value
slice(v, start, end) ==
    Value(v.elsize, SubSeq(v.buf, start * v.elsize + 1, end * v.elsize))

\* hal::permute(v, 0, index): element i of the result is element index[i]
permute(v, index) ==
    Value(v.elsize,
          [w \in 1..(Len(index) * v.elsize) |->
              v.buf[index[((w - 1) \div v.elsize) + 1] * v.elsize
                    + ((w - 1) % v.elsize) + 1]])

\* hal::select(pred, a, b), element by element
select(pred, a, b) ==
    Value(a.elsize,
          [w \in 1..Len(a.buf) |->
              IF pred[((w - 1) \div a.elsize) + 1] THEN a.buf[w] ELSE b.buf[w]])

\* the comparator '<' on the key operand: values = <<x0, y0, x1, y1, ...>>
comparator_body(values) ==
    Tuple([j \in 1..numel(values[1]) |->
              ElemVal(values[1], j - 1) < ElemVal(values[2], j - 1)])

\* dst.copyElementFrom(src, {}, {pos}, nbytes): nbytes words from the start
\* of src to element pos of dst.  Words read past the end of src are junk;
\* a write past the end of dst is recorded in ub.
copyElementFrom(dst, src, pos, nbytes, junk) ==
    [val |-> Value(dst.elsize,
                   [w \in 1..Len(dst.buf) |->
                       LET k == w - pos * dst.elsize
                       IN IF k >= 1 /\ k <= nbytes
                          THEN IF k <= Len(src.buf) THEN src.buf[k] ELSE junk
                          ELSE dst.buf[w]]),
     ub |-> nbytes > Len(src.buf) \/ pos * dst.elsize + nbytes > Len(dst.buf)]

(***************************************************************************)
(* The state threaded through the sort of one row: the operands' rows,     *)
(* the steps issued so far, whether a copy left its buffer, the word an    *)
(* out-of-bounds read yields, and whether getConditionValue was called.    *)
(***************************************************************************)
RowState(vals, junk) ==
    [vals |-> vals, trace |-> <<>>, ub |-> FALSE, junk |-> junk,
     revealed |-> FALSE]

CmpSwapStep(x, y, n, acc) ==
    [op |-> "cmpSwap", x |-> x, y |-> y, n |-> n, acc |-> acc, index |-> <<>>]

PermuteStep(index) ==
    [op |-> "permute", x |-> 0, y |-> 0, n |-> 0, acc |-> TRUE, index |-> index]

\* the byte count cmpSwap passes to copyElementFrom for operand i:
\* n * values_to_sort->front().elsize()
CopySize(vals, i, n) == n * vals[1].elsize

\* cmpSwap that leaves a pair alone when the predicate is false everywhere
cmpSwapSkip(st, x_start_indices, y_start_indices, n, acc) ==
    LET predicate == comparator_body(
                        <<slice(st.vals[1], x_start_indices, x_start_indices + n),
                          slice(st.vals[1], y_start_indices, y_start_indices + n)>>)
    IN IF \A j \in 1..n : predicate[j] = acc
       THEN st
       ELSE [st EXCEPT !.trace =
                Append(@, CmpSwapStep(x_start_indices, y_start_indices, n, acc)),
                       !.vals = Tuple([i \in 1..Len(st.vals) |->
                           LET a == slice(st.vals[i], x_start_indices, x_start_indices + n)
                               b == slice(st.vals[i], y_start_indices, y_start_indices + n)
                               lo == select(predicate, a, b)
                               hi == select(predicate, b, a)
                               c1 == copyElementFrom(st.vals[i], IF acc THEN lo ELSE hi,
                                        x_start_indices, CopySize(st.vals, i, n), st.junk)
                           IN copyElementFrom(c1.val, IF acc THEN hi ELSE lo,
                                  y_start_indices, CopySize(st.vals, i, n), st.junk).val])]

\* cmpSwap: one predicate from the key windows, then for every operand the
\* two selections copied over its x window and its y window
cmpSwap(st, x_start_indices, y_start_indices, n, acc) ==
    LET predicate == comparator_body(
                        <<slice(st.vals[1], x_start_indices, x_start_indices + n),
                          slice(st.vals[1], y_start_indices, y_start_indices + n)>>)
        one(i) ==
            LET fst == slice(st.vals[i], x_start_indices, x_start_indices + n)
                snd == slice(st.vals[i], y_start_indices, y_start_indices + n)
                greater == select(predicate, fst, snd)
                less == select(predicate, snd, fst)
                c1 == copyElementFrom(st.vals[i], IF acc THEN greater ELSE less,
                         x_start_indices, CopySize(st.vals, i, n), st.junk)
                c2 == copyElementFrom(c1.val, IF acc THEN less ELSE greater,
                         y_start_indices, CopySize(st.vals, i, n), st.junk)
            IN [val |-> c2.val, ub |-> c1.ub \/ c2.ub]
    IN [st EXCEPT !.vals = Tuple([i \in 1..Len(st.vals) |-> one(i).val]),
                  !.ub = @ \/ \E i \in 1..Len(st.vals) : one(i).ub,
                  !.trace = Append(@, CmpSwapStep(x_start_indices,
                                                  y_start_indices, n, acc))]


(***************************************************************************)
(* The sequential bitonic network.                                         *)
(***************************************************************************)
\* emp::greatestPowerOfTwoLessThan: k = 1; while (k < n) k <<= 1; k >> 1
RECURSIVE PowerOfTwoNotBelow(_, _)
PowerOfTwoNotBelow(k, n) ==
    IF k < n THEN PowerOfTwoNotBelow(2 * k, n) ELSE k

\* the split point of the sort, n >> 1, used for the merge as well
greatestPowerOfTwoLessThanHalf(n) == n \div 2

greatestPowerOfTwoLessThan(n) == PowerOfTwoNotBelow(1, n) \div 2

RECURSIVE sequentialBitonicMerge(_, _, _, _)
sequentialBitonicMerge(st, lo, n, acc) ==
    IF n > 1
    THEN LET m == greatestPowerOfTwoLessThan(n)
             s1 == cmpSwap(st, lo, lo + m, n - m, acc)
             s2 == Then(s1, sequentialBitonicMerge(s1, lo, m, acc))
         IN Then(s2, sequentialBitonicMerge(s2, lo + m, n - m, acc))
    ELSE st

\* a sort that gives both halves the orientation of the whole
RECURSIVE sequentialBitonicSortSameWay(_, _, _, _)
sequentialBitonicSortSameWay(st, lo, n, acc) ==
    IF n > 1
    THEN LET m == n \div 2
             s1 == sequentialBitonicSortSameWay(st, lo, m, acc)
             s2 == Then(s1, sequentialBitonicSortSameWay(s1, lo + m, n - m, acc))
         IN Then(s2, sequentialBitonicMerge(s2, lo, n, acc))
    ELSE st

RECURSIVE sequentialBitonicSort(_, _, _, _)
sequentialBitonicSort(st, lo, n, acc) ==
    IF n > 1
    THEN LET m == n \div 2
             s1 == sequentialBitonicSort(st, lo, m, ~acc)
             s2 == Then(s1, sequentialBitonicSort(s1, lo + m, n - m, acc))
         IN Then(s2, sequentialBitonicMerge(s2, lo, n, acc))
    ELSE st

(***************************************************************************)
(* The stage schedule of the parallel bitonic network.                     *)
(***************************************************************************)
\* absl::has_single_bit
has_single_bit(n) == n > 0 /\ PowerOfTwoNotBelow(1, n) = n

\* absl::bit_width(n) - 1 for n >= 1
RECURSIVE Log2(_)
Log2(n) == IF n <= 1 THEN 0 ELSE 1 + Log2(n \div 2)

\* (j >> b) & 1
Bit(j, b) == (j \div (2 ^ b)) % 2

Iota(n) == Tuple([k \in 1..n |-> k - 1])

\* fst.insert(fst.end(), sec.begin(), sec.end()) for a split of 0..n-1
SplitIndex(n, InFst(_)) ==
    LET NotInFst(j) == ~InFst(j)
    IN SelectSeq(Iota(n), InFst) \o SelectSeq(Iota(n), NotInFst)

\* body of the loop of generateBitonicSortIndex for one i
SortIndexStage(n, i) ==
    LET InFst(j) == Bit(j, i - 1) = 0
    IN SplitIndex(n, InFst)

RECURSIVE SortIndexFrom(_, _)
SortIndexFrom(n, i) ==
    IF i > 0 THEN <<SortIndexStage(n, i)>> \o SortIndexFrom(n, i - 1) ELSE <<>>

\* generateBitonicSortIndex: i from stage down to 1
generateBitonicSortIndex(n) == SortIndexFrom(n, Log2(n))

\* body of the inner loop of generateBitonicMergeIndex
MergeIndexStage(n, stage_idx, substage_idx) ==
    LET InFst(i) ==
            LET asc_flag == Bit(i, stage_idx + 1) = 0
                fst_flag == Bit(i, substage_idx) = 0
            IN asc_flag = fst_flag
    IN SplitIndex(n, InFst)

RECURSIVE MergeSubstagesFrom(_, _, _)
MergeSubstagesFrom(n, stage_idx, substage_idx) ==
    IF substage_idx > -1
    THEN <<MergeIndexStage(n, stage_idx, substage_idx)>>
         \o MergeSubstagesFrom(n, stage_idx, substage_idx - 1)
    ELSE <<>>

RECURSIVE MergeStagesFrom(_, _)
MergeStagesFrom(n, stage_idx) ==
    IF stage_idx < Log2(n) - 1
    THEN MergeSubstagesFrom(n, stage_idx, stage_idx)
         \o MergeStagesFrom(n, stage_idx + 1)
    ELSE <<>>

\* generateBitonicMergeIndex: stage_idx from 0 to stage - 2, substage_idx
\* from stage_idx down to 0
generateBitonicMergeIndex(n) == MergeStagesFrom(n, 0)

\* the forward permutation used once more in place of its inverse
InversePermutationForward(index) == index

\* iota sorted by index[left] < index[right]: position p comes k-th when
\* k - 1 positions hold a smaller index
InversePermutation(index) ==
    LET n == Len(index)
        rank == Tuple([p \in 1..n |->
                         Cardinality({q \in 1..n : index[q] < index[p]})])
    IN Tuple([k \in 1..n |-> (CHOOSE p \in 1..n : rank[p] = k - 1) - 1])

\* the schedule with the sort-index stages ahead of the merge-index stages
ScheduleSortFirst(n) ==
    generateBitonicSortIndex(n) \o generateBitonicMergeIndex(n)

\* indices after generateBitonicMergeIndex and generateBitonicSortIndex
Schedule(n) ==
    generateBitonicMergeIndex(n) \o generateBitonicSortIndex(n)

\* one iteration of the loop over the stages
ParallelStage(st, n, index) ==
    LET permuted == [st EXCEPT
                        !.vals = Tuple([i \in 1..Len(st.vals) |->
                                           permute(st.vals[i], index)]),
                        !.trace = Append(@, PermuteStep(index))]
        swapped == cmpSwap(permuted, 0, n \div 2, n \div 2, TRUE)
        inverse_permutation == InversePermutation(index)
    IN [swapped EXCEPT
           !.vals = Tuple([i \in 1..Len(swapped.vals) |->
                              permute(swapped.vals[i], inverse_permutation)]),
           !.trace = Append(@, PermuteStep(inverse_permutation))]

RECURSIVE ParallelStagesFrom(_, _, _, _)
ParallelStagesFrom(st, n, indices, k) ==
    IF k > Len(indices)
    THEN st
    ELSE LET s1 == ParallelStage(st, n, indices[k])
         IN Then(s1, ParallelStagesFrom(s1, n, indices, k + 1))

\* parallelBitonicSort; the caller has checked has_single_bit(n)
parallelBitonicSort(st, n) ==
    ParallelStagesFrom(st, n, Schedule(n), 1)

(***************************************************************************)
(* The public path: an index sort by the revealed comparator.              *)
(***************************************************************************)
\* the comparator lambda of the public path, on the extracted key row
PublicLess(vals, a, b) == ElemVal(vals[1], a) < ElemVal(vals[1], b)

\* insert index a behind every index that is not greater than it
RECURSIVE InsertSorted(_, _, _)
InsertSorted(vals, sorted, a) ==
    IF sorted = <<>>
    THEN <<a>>
    ELSE IF PublicLess(vals, a, sorted[Len(sorted)])
         THEN LET front == SubSeq(sorted, 1, Len(sorted) - 1)
                  placed == InsertSorted(vals, front, a)
              IN Append(placed, sorted[Len(sorted)])
         ELSE Append(sorted, a)

\* std::stable_sort of iota by the comparator
RECURSIVE StableSortFrom(_, _, _)
StableSortFrom(vals, sorted, a) ==
    IF a >= numel(vals[1])
    THEN sorted
    ELSE LET s1 == InsertSorted(vals, sorted, a)
         IN Then(s1, StableSortFrom(vals, s1, a + 1))

stable_sort(vals) == StableSortFrom(vals, <<>>, 0)

\* only the key row permuted by indices_to_sort
PermuteKeyOnly(vals, indices_to_sort) ==
    Tuple([i \in 1..Len(vals) |->
              IF i = 1 THEN permute(vals[i], indices_to_sort) ELSE vals[i]])

\* hal::permute of every operand's row by indices_to_sort
PermuteAll(vals, indices_to_sort) ==
    Tuple([i \in 1..Len(vals) |-> permute(vals[i], indices_to_sort)])

(***************************************************************************)
(* Rows given to the row sorts.  The key operand comes first; a second     *)
(* operand carries, in element j, the number j.                            *)
(***************************************************************************)
\* a 1-D Value of the given element size holding the given numbers
MakeValue(es, nums) ==
    Value(es, [w \in 1..(Len(nums) * es) |-> nums[((w - 1) \div es) + 1]])

Operands(keys, layout) ==
    Tuple([i \in 1..Len(layout) |->
              MakeValue(layout[i], IF i = 1 THEN keys ELSE Iota(Len(keys)))])

\* element sizes of the operands
Layouts == {<<1>>, <<1, 1>>, <<1, 2>>, <<2, 1>>}

AllRows(n) == [1..n -> 0..MaxKey]

\* rows of zeros and ones
BinaryRows(n) == [1..n -> {0, 1}]

RECURSIVE Perms(_)
Perms(S) ==
    IF S = {}
    THEN {<<>>}
    ELSE UNION {{<<x>> \o q : q \in Perms(S \ {x})} : x \in S}

\* arrangements j |-> (a * j + b) mod n of the keys 0..n-1, a odd
Affine(n) ==
    {[k \in 1..n |-> (a * (k - 1) + b) % n] :
        a \in {c \in 1..n : c % 2 = 1}, b \in {0, 1, n \div 2}}

Reverse(q) == [k \in 1..Len(q) |-> q[Len(q) + 1 - k]]

Zero(q) == [k \in 1..Len(q) |-> 0]

RowCases ==
    {[keys |-> k, layout |-> <<1>>, other |-> Reverse(k)] :
        k \in UNION {BinaryRows(n) : n \in 0..MaxLen}}
    \cup
    {[keys |-> k, layout |-> c, other |-> Zero(k)] :
        k \in UNION {AllRows(n) : n \in 0..ShortLen}, c \in Layouts}
    \cup
    {[keys |-> k, layout |-> c, other |-> Reverse(k)] :
        k \in UNION {Perms(0..(n - 1)) : n \in 0..PermLen},
        c \in {<<1>>, <<1, 1>>}}
    \cup
    {[keys |-> k, layout |-> c, other |-> Reverse(k)] :
        k \in UNION {Affine(2 ^ l) : l \in 0..MaxLog},
        c \in {<<1>>, <<1, 2>>}}

\* what a read outside a buffer may yield
JunkWords(layout) ==
    IF \E i \in 1..Len(layout) : layout[i] < layout[1]
    THEN {0, MaxKey + 1}
    ELSE {MaxKey + 1}

NoRun ==
    [vals |-> <<>>, trace |-> <<>>, ub |-> FALSE, junk |-> 0, revealed |-> FALSE]

RowInit ==
    /\ \E c \in RowCases :
          /\ rowA = Operands(c.keys, c.layout)
          /\ rowB = Operands(c.other, c.layout)
          /\ rowJunk \in JunkWords(c.layout)
    /\ rowPc = "start"
    /\ outPar = [ok |-> FALSE, a |-> NoRun, b |-> NoRun]
    /\ outSeq = [a |-> NoRun, b |-> NoRun]
    /\ outPub = <<>>

\* parallelBitonicSort(values_to_sort, n) on both rows; it enforces
\* has_single_bit(n) first
RowParallel ==
    /\ rowPc = "start"
    /\ LET n == numel(rowA[1])
       IN outPar' =
            IF has_single_bit(n)
            THEN [ok |-> TRUE,
                  a |-> parallelBitonicSort(RowState(rowA, rowJunk), n),
                  b |-> parallelBitonicSort(RowState(rowB, rowJunk), n)]
            ELSE [ok |-> FALSE, a |-> NoRun, b |-> NoRun]
    /\ rowPc' = "parallel"
    /\ UNCHANGED <<rowA, rowB, rowJunk, outSeq, outPub>>
    /\ UNCHANGED <<exvars, sortvars>>

\* sequentialBitonicSort(&values_to_sort, 0, n, true) on both rows
RowSequential ==
    /\ rowPc = "parallel"
    /\ LET n == numel(rowA[1])
       IN outSeq' =
            [a |-> sequentialBitonicSort(RowState(rowA, rowJunk), 0, n, TRUE),
             b |-> sequentialBitonicSort(RowState(rowB, rowJunk), 0, n, TRUE)]
    /\ rowPc' = "sequential"
    /\ UNCHANGED <<rowA, rowB, rowJunk, outPar, outPub>>
    /\ UNCHANGED <<exvars, sortvars>>

\* the public path on rowA: stable index sort, then permute every operand
RowPublic ==
    /\ rowPc = "sequential"
    /\ outPub' = PermuteAll(rowA, stable_sort(rowA))
    /\ rowPc' = "public"
    /\ UNCHANGED <<rowA, rowB, rowJunk, outPar, outSeq>>
    /\ UNCHANGED <<exvars, sortvars>>

RowNext ==
    \/ RowParallel
    \/ RowSequential
    \/ RowPublic

(***************************************************************************)
(* Sort on tensors.  A tensor is a Value with a shape; its elements are    *)
(* laid out with the last dimension varying fastest.                       *)
(***************************************************************************)
Tensor(shape, es, words) == [shape |-> shape, elsize |-> es, buf |-> Tuple(words)]

RECURSIVE Product(_, _)
Product(shape, k) == IF k = 0 THEN 1 ELSE shape[k] * Product(shape, k - 1)

Numel(shape) == Product(shape, Len(shape))

\* the position of the element at multi-index idx, last dimension fastest
FlatIndex(shape, idx) ==
    LET RECURSIVE Flat(_)
        Flat(k) == IF k = 0 THEN 0 ELSE Flat(k - 1) * shape[k] + idx[k]
    IN Flat(Len(shape))

\* the rank of a multi-index in the order of forEachIndex, which increments
\* dimension 0 first
VisitOrder(shape, idx) ==
    LET RECURSIVE Visit(_)
        Visit(k) == IF k > Len(shape) THEN 0 ELSE idx[k] + shape[k] * Visit(k + 1)
    IN Visit(1)

\* forEachIndex(shape, base, count, incr, fn): the multi-indices visited,
\* dimension 0 incremented first
ForEachIndex(shape, incr) ==
    LET visited == {idx \in [1..Len(shape) -> 0..Numel(shape)] :
                      \A k \in 1..Len(shape) :
                         /\ idx[k] < shape[k]
                         /\ incr[k] > 0 /\ idx[k] % incr[k] = 0}
    IN Tuple([r \in 1..Cardinality(visited) |->
                 CHOOSE idx \in visited :
                    Cardinality({o \in visited :
                        VisitOrder(shape, o) < VisitOrder(shape, idx)}) = r - 1])

\* getValuesToSort: for every operand the slice [indices, limit_indices)
\* reshaped to {sort_dim_elements}
getValuesToSort(inputs, indices, sort_dim, n) ==
    Tuple([i \in 1..Len(inputs) |->
        Value(inputs[i].elsize,
              [w \in 1..(n * inputs[i].elsize) |->
                  LET j == (w - 1) \div inputs[i].elsize
                      at == [indices EXCEPT ![sort_dim + 1] = j]
                  IN inputs[i].buf[FlatIndex(inputs[i].shape, at) * inputs[i].elsize
                                   + ((w - 1) % inputs[i].elsize) + 1]])])

\* the multi-index of the element at position e
MultiIndex(shape, e) ==
    LET RECURSIVE Below(_)
        Below(k) == IF k > Len(shape) THEN 1 ELSE shape[k] * Below(k + 1)
    IN [k \in 1..Len(shape) |-> (e \div Below(k + 1)) % shape[k]]

\* elements written whatever their indices off dim are
sliceCopyWritesAnyRow(dst, src, dst_indices, dim) ==
    {e \in 0..(Numel(dst.shape) - 1) :
        MultiIndex(dst.shape, e)[dim + 1] < numel(src)}

\* the elements of dst that sliceCopy writes: those at dst_indices with
\* [dim] = idx, for idx < src.shape()[0]
sliceCopyWrites(dst, src, dst_indices, dim) ==
    {e \in 0..(Numel(dst.shape) - 1) :
        LET at == MultiIndex(dst.shape, e)
        IN /\ \A k \in 1..Len(dst.shape) :
                 k # dim + 1 => at[k] = dst_indices[k]
           /\ at[dim + 1] < numel(src)}

\* sliceCopy: dst.copyElementFrom(src, {idx}, dst_indices) for each idx
sliceCopy(dst, src, dst_indices, dim) ==
    LET writes == sliceCopyWrites(dst, src, dst_indices, dim)
    IN Tensor(dst.shape, dst.elsize,
              [w \in 1..Len(dst.buf) |->
                  LET e == (w - 1) \div dst.elsize
                      idx == MultiIndex(dst.shape, e)[dim + 1]
                  IN IF e \in writes
                     THEN src.buf[idx * src.elsize + ((w - 1) % dst.elsize) + 1]
                     ELSE dst.buf[w]])

\* the write counts after the write-back loop over the operands
CountWrites(counts, res, vals, indices, sort_dim) ==
    Tuple([i \in 1..Len(res) |->
        LET writes == sliceCopyWrites(res[i], vals[i], indices, sort_dim)
        IN Tuple([e \in 1..Len(counts[i]) |->
                    IF (e - 1) \in writes THEN counts[i][e] + 1 ELSE counts[i][e]])])

\* the row along sort_dim is contiguous in a tensor of this shape: slice
\* and reshape then give a view that shares the tensor's buffer
isCompact(shape, sort_dim) ==
    \A k \in (sort_dim + 2)..Len(shape) : shape[k] = 1

\* the write-back loop over the operands
WriteBack(res, vals, indices, sort_dim) ==
    Tuple([i \in 1..Len(res) |-> sliceCopy(res[i], vals[i], indices, sort_dim)])

\* std::sort by the comparator: any order of iota without an inversion
SortedOrders(vals) ==
    {o \in Perms(0..(numel(vals[1]) - 1)) :
        \A p \in 1..Len(o) : \A q \in (p + 1)..Len(o) :
            ~PublicLess(vals, o[q], o[p])}

(***************************************************************************)
(* The calls of Sort the model makes.                                      *)
(***************************************************************************)
Shapes ==
    {<<n>> : n \in 1..ShortLen}
    \cup {q \in {<<a, b>> : a \in 2..3, b \in 2..3} : q[1] * q[2] <= 6}

\* the operands: keys first, then a tensor whose element j holds j
TensorOperands(shape, keys, layout) ==
    Tuple([i \in 1..Len(layout) |->
        Tensor(shape, layout[i],
               MakeValue(layout[i],
                         IF i = 1 THEN keys ELSE Iota(Numel(shape))).buf)])

Modes ==
    {[vis |-> "VIS_PUBLIC", is_stable |-> TRUE],
     [vis |-> "VIS_PUBLIC", is_stable |-> FALSE],
     [vis |-> "VIS_SECRET", is_stable |-> FALSE]}

SortCall(shape, keys, layout, d, mode, junk) ==
    [inputs |-> TensorOperands(shape, keys, layout), sort_dim |-> d,
     is_stable |-> mode.is_stable, vis |-> mode.vis, junk |-> junk]

SortCalls ==
    UNION {{SortCall(shape, keys, layout, d, mode, junk) :
               keys \in IF Len(shape) = 1
                         THEN AllRows(Numel(shape))
                         ELSE BinaryRows(Numel(shape)),
               d \in 0..(Len(shape) - 1), mode \in Modes,
               junk \in JunkWords(layout)} :
           shape \in Shapes, layout \in Layouts}
    \cup
    UNION {{SortCall(shape, Zero(Iota(Numel(shape))), <<1, 1>>, d, mode, MaxKey + 1) :
               d \in {-1, Len(shape)}, mode \in Modes} :
           shape \in Shapes}

SortInit ==
    /\ sortIn \in SortCalls
    /\ inputsNow = sortIn.inputs
    /\ sortPc = "entry"
    /\ results = <<>>
    /\ written = <<>>
    /\ sort_dim_elements = 0
    /\ rows = <<>>
    /\ rowNo = 0
    /\ oobRead = FALSE
    /\ lastRow = <<>>

key_shape == sortIn.inputs[1].shape

rank == Len(key_shape)

\* increment(rank, 1) with increment[sort_dim] = sort_dim_elements
increment ==
    [k \in 1..rank |-> IF k = sortIn.sort_dim + 1 THEN sort_dim_elements ELSE 1]

\* Sort, lines 226-237: the outputs are allocated, their content is not set
\* the outputs as allocated: shaped like the inputs, content not set
Allocate(inputs, junk) ==
    Tuple([i \in 1..Len(inputs) |->
              Tensor(inputs[i].shape, inputs[i].elsize,
                     [w \in 1..Len(inputs[i].buf) |-> junk])])

SortAllocate ==
    /\ sortPc = "entry"
    /\ results' = Allocate(sortIn.inputs, sortIn.junk)
    /\ written' = Tuple([i \in 1..Len(sortIn.inputs) |->
                           Tuple([e \in 1..Numel(sortIn.inputs[i].shape) |-> 0])])
    /\ sortPc' = "allocated"
    /\ UNCHANGED <<sortIn, inputsNow, sort_dim_elements, rows, rowNo, oobRead, lastRow>>
    /\ UNCHANGED <<exvars, rowvars>>

\* what reading key_shape outside its bounds may yield
StraySizes == {0, 1, ShortLen + 1}

\* Sort, line 238: sort_dim_elements = key_shape[sort_dim].  With sort_dim
\* outside [0, rank) the read is outside the vector: it yields any value, or
\* the process dies.
SortIndexShape ==
    /\ sortPc = "allocated"
    /\ IF sortIn.sort_dim >= 0 /\ sortIn.sort_dim < rank
       THEN /\ sort_dim_elements' = key_shape[sortIn.sort_dim + 1]
            /\ sortPc' = "indexed"
            /\ oobRead' = FALSE
       ELSE /\ oobRead' = TRUE
            /\ \/ sort_dim_elements' \in StraySizes /\ sortPc' = "indexed"
               \/ sort_dim_elements' = 0 /\ sortPc' = "crashed"
    /\ UNCHANGED <<sortIn, inputsNow, results, written, rows, rowNo, lastRow>>
    /\ UNCHANGED <<exvars, rowvars>>

\* Sort, lines 239-244: the range check of sort_dim; on success the rows
\* to visit are those of forEachIndex (lines 248 and 287)
SortCheckDim ==
    /\ sortPc = "indexed"
    /\ IF sortIn.sort_dim >= 0 /\ sortIn.sort_dim < rank
       THEN /\ sortPc' = "rows"
            /\ rows' = ForEachIndex(key_shape, increment)
            /\ results' = results
       ELSE /\ sortPc' = "InvalidSortDimension"
            /\ rows' = rows
            /\ results' = <<>>
    /\ UNCHANGED <<sortIn, inputsNow, written, sort_dim_elements, rowNo,
                   oobRead, lastRow>>
    /\ UNCHANGED <<exvars, rowvars>>

RowRecord(indices, before, after, order, ub, trace, revealed) ==
    [indices |-> indices, before |-> before, after |-> after,
     order |-> order, ub |-> ub, trace |-> trace, revealed |-> revealed]

\* a row of a non-public sort served by the index sort of the public path,
\* which reveals every comparison
SortRowRevealed(st, n) ==
    [st EXCEPT !.vals = PermuteAll(st.vals, stable_sort(st.vals)),
               !.revealed = TRUE]

\* Sort, lines 293-302: the path taken for a row when the comparator's
\* result is not public
SortRowOblivious(st, n) ==
    IF has_single_bit(n)
    THEN parallelBitonicSort(st, n)
    ELSE sequentialBitonicSort(st, 0, n, TRUE)

\* one call of the lambda of the VIS_PUBLIC branch; its comparator calls
\* getConditionValue, and a row of two or more elements is compared
SortRowPublic ==
    /\ sortPc = "rows" /\ rowNo < Len(rows)
    /\ sortIn.vis = "VIS_PUBLIC"
    /\ LET indices == rows[rowNo + 1]
           values_to_sort == getValuesToSort(inputsNow, indices,
                                             sortIn.sort_dim, sort_dim_elements)
       IN \E indices_to_sort \in
                 IF sortIn.is_stable
                 THEN {stable_sort(values_to_sort)}
                 ELSE SortedOrders(values_to_sort) :
             LET sorted == PermuteAll(values_to_sort, indices_to_sort)
             IN /\ results' = WriteBack(results, sorted, indices, sortIn.sort_dim)
                /\ written' = CountWrites(written, results, sorted, indices,
                                           sortIn.sort_dim)
                /\ lastRow' = RowRecord(indices, values_to_sort, sorted,
                                        indices_to_sort, FALSE, <<>>,
                                        sort_dim_elements > 1)
    /\ rowNo' = rowNo + 1
    /\ UNCHANGED <<sortIn, inputsNow, sortPc, sort_dim_elements, rows, oobRead>>
    /\ UNCHANGED <<exvars, rowvars>>

\* one call of the lambda of the other branch, n a power of two
SortRowParallel ==
    /\ sortPc = "rows" /\ rowNo < Len(rows)
    /\ sortIn.vis # "VIS_PUBLIC"
    /\ LET indices == rows[rowNo + 1]
           values_to_sort == getValuesToSort(inputsNow, indices,
                                             sortIn.sort_dim, sort_dim_elements)
           n == numel(values_to_sort[1])
           sorted == SortRowOblivious(RowState(values_to_sort, sortIn.junk), n)
       IN /\ has_single_bit(n)
          /\ results' = WriteBack(results, sorted.vals, indices, sortIn.sort_dim)
          /\ written' = CountWrites(written, results, sorted.vals, indices,
                                     sortIn.sort_dim)
          /\ lastRow' = RowRecord(indices, values_to_sort, sorted.vals, <<>>,
                                  sorted.ub, sorted.trace, sorted.revealed)
    /\ rowNo' = rowNo + 1
    /\ UNCHANGED <<sortIn, inputsNow, sortPc, sort_dim_elements, rows, oobRead>>
    /\ UNCHANGED <<exvars, rowvars>>

\* one call of the lambda of the other branch, n not a power of two.
\* values_to_sort[i] is hal::reshape(hal::slice(inputs[i], ...)): where the
\* row is contiguous in inputs[i] it is a view of the buffer of inputs[i],
\* so what cmpSwap copies into values_to_sort[i] lands in inputs[i].
SortRowSequential ==
    /\ sortPc = "rows" /\ rowNo < Len(rows)
    /\ sortIn.vis # "VIS_PUBLIC"
    /\ LET indices == rows[rowNo + 1]
           values_to_sort == getValuesToSort(inputsNow, indices,
                                             sortIn.sort_dim, sort_dim_elements)
           n == numel(values_to_sort[1])
           sorted == SortRowOblivious(RowState(values_to_sort, sortIn.junk), n)
       IN /\ ~has_single_bit(n)
          /\ results' = WriteBack(results, sorted.vals, indices, sortIn.sort_dim)
          /\ written' = CountWrites(written, results, sorted.vals, indices,
                                     sortIn.sort_dim)
          /\ lastRow' = RowRecord(indices, values_to_sort, sorted.vals, <<>>,
                                  sorted.ub, sorted.trace, sorted.revealed)
          /\ inputsNow' = IF isCompact(key_shape, sortIn.sort_dim)
                          THEN WriteBack(inputsNow, sorted.vals, indices,
                                         sortIn.sort_dim)
                          ELSE inputsNow
    /\ rowNo' = rowNo + 1
    /\ UNCHANGED <<sortIn, sortPc, sort_dim_elements, rows, oobRead>>
    /\ UNCHANGED <<exvars, rowvars>>

\* Sort, line 310: return results
SortReturn ==
    /\ sortPc = "rows" /\ rowNo = Len(rows)
    /\ sortPc' = "done"
    /\ UNCHANGED <<sortIn, inputsNow, results, written, sort_dim_elements,
                   rows, rowNo, oobRead, lastRow>>
    /\ UNCHANGED <<exvars, rowvars>>

SortNext ==
    \/ SortAllocate
    \/ SortIndexShape
    \/ SortCheckDim
    \/ SortRowPublic
    \/ SortRowParallel
    \/ SortRowSequential
    \/ SortReturn

(***************************************************************************)
(* The specifications.  Each runs one part of the program; the variables   *)
(* of the other parts stay as they are.                                    *)
(***************************************************************************)
ExUnused ==
    /\ call = <<>> /\ scopes = <<>> /\ stack = <<>> /\ exStatus = "unused"
    /\ exResults = <<>> /\ kernels = 0 /\ retOuter = <<>> /\ events = <<>>

RowUnused ==
    /\ rowA = <<>> /\ rowB = <<>> /\ rowJunk = 0 /\ rowPc = "unused"
    /\ outPar = <<>> /\ outSeq = <<>> /\ outPub = <<>>

SortUnused ==
    /\ sortIn = <<>> /\ inputsNow = <<>> /\ sortPc = "unused" /\ results = <<>>
    /\ written = <<>>
    /\ sort_dim_elements = 0 /\ rows = <<>> /\ rowNo = 0
    /\ oobRead = FALSE /\ lastRow = <<>>

InitExec == ExInit /\ RowUnused /\ SortUnused

\* the graph executor
SpecExec == InitExec /\ [][ExNext]_vars

InitRow == RowInit /\ ExUnused /\ SortUnused

\* the three sorts of one row
SpecRow == InitRow /\ [][RowNext]_vars

InitSort == SortInit /\ ExUnused /\ RowUnused

\* Sort on tensors
SpecSort == InitSort /\ [][SortNext]_vars

(***************************************************************************)
(* Notions used by the properties.                                         *)
(***************************************************************************)
\* the scopes from s outwards
RECURSIVE ChainOf(_, _)
ChainOf(sc, s) == IF s = 0 THEN <<>> ELSE <<s>> \o ChainOf(sc, sc[s].parent)

\* the scopes of the chain of s that bind key, as positions in the chain
Binders(sc, s, key) ==
    {j \in 1..Len(ChainOf(sc, s)) : key \in DOMAIN sc[ChainOf(sc, s)[j]].symbols}

\* key is bound in the chain of s and its nearest binding is v
NearestBindingIs(sc, s, key, v) ==
    /\ Binders(sc, s, key) # {}
    /\ LET j == CHOOSE m \in Binders(sc, s, key) :
                   \A o \in Binders(sc, s, key) : m <= o
       IN sc[ChainOf(sc, s)[j]].symbols[key] = v

\* a runRegion has just returned to its caller
JustReturned ==
    /\ call = <<>> /\ retOuter # <<>>
    /\ \/ exStatus = "returned"
       \/ exStatus = "running" /\ stack # <<>> /\ Top.await

Numbers(v) == [j \in 1..numel(v) |-> ElemVal(v, j - 1)]

Ascending(q) == \A j \in 1..(Len(q) - 1) : q[j] <= q[j + 1]

Distinct(q) == \A j \in 1..Len(q) : \A k \in (j + 1)..Len(q) : q[j] # q[k]

Count(q, x) == Cardinality({j \in 1..Len(q) : q[j] = x})

\* q and r hold the same elements the same number of times
SameElements(q, r) ==
    /\ Len(q) = Len(r)
    /\ \A j \in 1..Len(q) : Count(q, q[j]) = Count(r, q[j])

Elements(v) == [j \in 1..numel(v) |-> ElemAt(v, j - 1)]

\* the runRegion calls so far that reached runBlock
Activations ==
    {a \in 1..Len(events) : events[a].e = "runRegion" /\ events[a].pc = 1}

\* the block of activation a is no longer being run
Finished(a) == \A k \in 1..Len(stack) : stack[k].id # a

\* the positions, in program order of the events, at which activation a
\* started a kernel
KernelStarts(a) ==
    LET at == SelectSeq([i \in 1..Len(events) |-> i],
                        LAMBDA i : events[i].e = "start" /\ events[i].id = a)
    IN [k \in 1..Len(at) |-> events[at[k]].pc]

\* activation a looked up the operands of a terminator
TookTerminator(a) ==
    \E i \in 1..Len(events) : events[i].e = "term" /\ events[i].id = a

RowLen == numel(rowA[1])

(***************************************************************************)
(* C1.  When runRegion returns for a region with one terminated block and  *)
(* as many params as block arguments, after every non-terminator           *)
(* operation has run, the returned list has one value per terminator       *)
(* operand, the i-th being the nearest binding of the i-th operand in the  *)
(* region's scope chain; an operand that is a block argument which no      *)
(* operation rebinds yields the param at its position.                     *)
(***************************************************************************)
C1_RunRegionResults ==
    (retOuter # <<>> /\ HasTerminator(retOuter.region.ops)) =>
        LET term == getTerminator(retOuter.region.ops).operands
            body == without_terminator(retOuter.region.ops)
            chain == Append(retOuter.outer, retOuter.scope)
        IN /\ retOuter.region.nargs = Len(retOuter.params)
           /\ Len(exResults) = Len(term)
           /\ \A k \in 1..Len(body) :
                 body[k].result \in DOMAIN retOuter.scope.symbols
           /\ \A i \in 1..Len(term) :
                 /\ NearestBindingIs(chain, Len(chain), term[i], exResults[i])
                 /\ (/\ term[i] <= retOuter.region.nargs
                     /\ \A k \in 1..Len(body) : body[k].result # term[i])
                    => exResults[i] = retOuter.params[term[i]]

\* the top-level region returned a block argument and a kernel result
C1_Witness ==
    /\ exStatus = "returned"
    /\ HasTerminator(retOuter.region.ops)
    /\ Len(exResults) = 2
    /\ kernels >= 1
    /\ LET term == getTerminator(retOuter.region.ops).operands
       IN /\ \E i \in 1..2 : term[i] <= retOuter.region.nargs
          /\ \E i \in 1..2 : term[i] > retOuter.region.nargs

(***************************************************************************)
(* C2.  Scope discard.  While a region is active, every enclosing scope    *)
(* stays exactly as it was when the region was entered, whatever the       *)
(* region binds; and when it has returned, the scopes are again exactly    *)
(* those of the moment it was entered: its bindings are gone and no        *)
(* enclosing binding changed.                                              *)
(***************************************************************************)
C2_ScopeDiscard ==
    /\ \A k \in 1..Len(stack) :
          SubSeq(scopes, 1, stack[k].scope - 1) = stack[k].outer
    /\ JustReturned => scopes = retOuter.outer

\* a nested region has returned that had bound an id the enclosing scope
\* binds to another value, and an id the enclosing scope does not see
C2_Witness ==
    /\ JustReturned /\ exStatus = "running"
    /\ \E k \in DOMAIN retOuter.scope.symbols :
          /\ lookupValue(scopes, Top.scope, k).found
          /\ lookupValue(scopes, Top.scope, k).val # retOuter.scope.symbols[k]
    /\ \E k \in DOMAIN retOuter.scope.symbols :
          ~lookupValue(scopes, Top.scope, k).found

(***************************************************************************)
(* C10.  A runRegion call whose params differ in number from the region's  *)
(* block arguments fails with ArityMismatch, and that step adds no scope   *)
(* and no binding, starts no block, invokes no kernel and returns nothing. *)
(***************************************************************************)
C10_ArityMismatch ==
    [][(/\ call # <<>> /\ ~Failed
        /\ call[1].entry = "runRegion"
        /\ call[1].region.nargs # Len(call[1].params))
       => /\ exStatus' = "ArityMismatch"
          /\ scopes' = scopes
          /\ stack' = stack
          /\ kernels' = kernels
          /\ exResults' = exResults]_vars

\* a nested call failed on its arity, the scopes of its callers still live
C10_Witness ==
    /\ exStatus = "ArityMismatch"
    /\ kernels >= 1
    /\ Len(scopes) > 1
    /\ stack # <<>>

(***************************************************************************)
(* C3.  For a power-of-two length and distinct keys, parallelBitonicSort,  *)
(* sequentialBitonicSort(0, n, true) and the public-path index sort leave  *)
(* the key row in the same, ascending, order.                              *)
(***************************************************************************)
C3_ObliviousEquivalence ==
    (/\ rowPc = "public"
     /\ has_single_bit(RowLen)
     /\ Distinct(Numbers(rowA[1])))
    => /\ outPar.ok
       /\ outPar.a.vals[1] = outSeq.a.vals[1]
       /\ outSeq.a.vals[1] = outPub[1]
       /\ Ascending(Numbers(outPub[1]))
       /\ SameElements(Numbers(outPub[1]), Numbers(rowA[1]))

\* the three sorts have run on a longest row of distinct keys not in order
C3_Witness ==
    /\ rowPc = "public"
    /\ RowLen = 2 ^ MaxLog
    /\ Distinct(Numbers(rowA[1]))
    /\ ~Ascending(Numbers(rowA[1]))
    /\ Len(outPar.a.trace) > 0

(***************************************************************************)
(* C4.  For a length that is not a power of two, sequentialBitonicSort(0,  *)
(* n, true) leaves the key row in non-decreasing order, holding the        *)
(* elements it started with.                                               *)
(***************************************************************************)
C4_NonPowerOfTwo ==
    (/\ rowPc \in {"sequential", "public"}
     /\ RowLen >= 1
     /\ ~has_single_bit(RowLen))
    => /\ Ascending(Numbers(outSeq.a.vals[1]))
       /\ SameElements(Numbers(outSeq.a.vals[1]), Numbers(rowA[1]))

\* the sequential sort has run on a row of 9 keys that were not in order
C4_Witness ==
    /\ rowPc = "sequential"
    /\ RowLen = 9
    /\ ~Ascending(Numbers(rowA[1]))
    /\ Ascending(Numbers(outSeq.a.vals[1]))

(***************************************************************************)
(* C5.  Obliviousness.  Two rows of the same length and operand layout     *)
(* make parallelBitonicSort issue the same permutation index lists and     *)
(* compare-exchange calls in the same order, and likewise                  *)
(* sequentialBitonicSort.                                                  *)
(***************************************************************************)
C5_Oblivious ==
    /\ rowPc \in {"parallel", "sequential", "public"}
          => outPar.a.trace = outPar.b.trace
    /\ rowPc \in {"sequential", "public"}
          => outSeq.a.trace = outSeq.b.trace

\* both sorts have run on two rows that differ and ended differently
C5_Witness ==
    /\ rowPc = "sequential"
    /\ Len(rowA) = 2
    /\ rowA[1] # rowB[1]
    /\ outPar.ok
    /\ Len(outPar.a.trace) > 3
    /\ Len(outSeq.a.trace) > 3
    /\ \E k \in 1..Len(outSeq.a.trace) : ~outSeq.a.trace[k].acc
    /\ outSeq.a.vals # outSeq.b.vals

(***************************************************************************)
(* C7.  After the bitonic sort of a row, one permutation of the positions  *)
(* maps the input row to the output row for every operand at once, and no  *)
(* copy of cmpSwap left the window it was meant for.  (The second operand  *)
(* holds each element's input position, which names the permutation.)      *)
(***************************************************************************)
MovedTogether(out, in) ==
    /\ ~out.ub
    /\ \A i \in 1..Len(in) : Len(out.vals[i].buf) = Len(in[i].buf)
    /\ \A p \in 0..(numel(in[1]) - 1) :
          LET src == ElemVal(out.vals[Len(in)], p)
          IN /\ src \in 0..(numel(in[1]) - 1)
             /\ \A i \in 1..Len(in) : ElemAt(out.vals[i], p) = ElemAt(in[i], src)

C7_SameMovement ==
    Len(rowA) = 2 =>
       /\ (rowPc \in {"parallel", "sequential", "public"} /\ outPar.ok)
             => MovedTogether(outPar.a, rowA)
       /\ rowPc \in {"sequential", "public"}
             => MovedTogether(outSeq.a, rowA)

(***************************************************************************)
(* C6.  On the public path the key row comes out in non-decreasing order,  *)
(* one index order maps the input row to the output row of every operand,  *)
(* under is_stable that order keeps equal keys in input order, and the     *)
(* row is what the outputs hold at the row's indices.                      *)
(***************************************************************************)
C6_PublicSort ==
    (sortIn # <<>> /\ lastRow # <<>> /\ sortIn.vis = "VIS_PUBLIC") =>
        LET n == numel(lastRow.before[1])
            keys == Numbers(lastRow.before[1])
        IN /\ lastRow.before = getValuesToSort(sortIn.inputs, lastRow.indices,
                                               sortIn.sort_dim, n)
           /\ lastRow.after = getValuesToSort(results, lastRow.indices,
                                              sortIn.sort_dim, n)
           /\ Ascending(Numbers(lastRow.after[1]))
           /\ \E o \in Perms(0..(n - 1)) :
                 /\ \A i \in 1..Len(lastRow.before) : \A p \in 1..n :
                       ElemAt(lastRow.after[i], p - 1)
                          = ElemAt(lastRow.before[i], o[p])
                 /\ sortIn.is_stable =>
                       \A p \in 1..n : \A q \in (p + 1)..n :
                          keys[o[p] + 1] = keys[o[q] + 1] => o[p] < o[q]

\* a stable public sort of two operands has returned; its last row had
\* equal keys and was not in order
C6_Witness ==
    /\ sortPc = "done"
    /\ sortIn.vis = "VIS_PUBLIC" /\ sortIn.is_stable
    /\ Len(sortIn.inputs) = 2
    /\ rowNo > 1
    /\ ~Ascending(Numbers(lastRow.before[1]))
    /\ ~Distinct(Numbers(lastRow.before[1]))

(***************************************************************************)
(* C8.  Row independence.  When Sort returns, each output row of each      *)
(* operand holds exactly the elements of the input row at the same         *)
(* multi-index, the key row in non-decreasing order.                       *)
(***************************************************************************)
C8_RowIndependence ==
    (sortIn # <<>> /\ sortPc = "done") =>
        \A r \in 1..Len(rows) :
            LET in == getValuesToSort(sortIn.inputs, rows[r], sortIn.sort_dim,
                                      sort_dim_elements)
                out == getValuesToSort(results, rows[r], sortIn.sort_dim,
                                       sort_dim_elements)
            IN /\ Ascending(Numbers(out[1]))
               /\ \A i \in 1..Len(in) : SameElements(Elements(out[i]), Elements(in[i]))

(***************************************************************************)
(* C9.  With sort_dim outside [0, rank) Sort fails with                    *)
(* InvalidSortDimension before it uses sort_dim for anything else: the     *)
(* shape is never indexed out of range and no row is processed.            *)
(***************************************************************************)
C9_CheckBeforeIndex ==
    (sortIn # <<>> /\ (sortIn.sort_dim < 0 \/ sortIn.sort_dim >= rank)) =>
        /\ ~oobRead
        /\ sortPc \in {"entry", "allocated", "InvalidSortDimension"}
        /\ rowNo = 0

(***************************************************************************)
(* C11.  When runBlock is done with a block that has no terminator and     *)
(* none of whose kernels failed, it has run every operation of the block   *)
(* once, in order, it has taken no operation for the terminator, and it    *)
(* has failed with MissingTerminator, returning nothing.                   *)
(***************************************************************************)
C11_MissingTerminator ==
    \A a \in Activations :
        (/\ ~HasTerminator(events[a].region.ops)
         /\ Finished(a)
         /\ exStatus \notin {"UndefinedValue", "ArityMismatch", "MalformedRegion"})
        => /\ exStatus = "MissingTerminator"
           /\ KernelStarts(a) = [k \in 1..Len(events[a].region.ops) |-> k]
           /\ ~TookTerminator(a)
           /\ exResults = <<>>

(***************************************************************************)
(* C12.  Sort never changes a caller-supplied input: at every point of     *)
(* Sort, and after it returned or failed, each input Value holds what the  *)
(* caller passed.                                                          *)
(***************************************************************************)
C12_InputsUnchanged ==
    sortIn # <<>> => inputsNow = sortIn.inputs

(***************************************************************************)
(* C13.  Idempotence.  A row whose keys are already in non-decreasing      *)
(* order comes out of Sort as it went in, for every operand, on the        *)
(* public path and on both bitonic paths, and no copy left its window.     *)
(***************************************************************************)
C13_Idempotence ==
    (sortIn # <<>> /\ lastRow # <<>>
     /\ Ascending(Numbers(lastRow.before[1])))
    => /\ ~lastRow.ub
       /\ \A i \in 1..Len(lastRow.before) :
             Elements(lastRow.after[i]) = Elements(lastRow.before[i])

(***************************************************************************)
(* C14.  When the comparator's result is not public, the sort of a row     *)
(* never calls getConditionValue, and the permutations and                 *)
(* compare-exchange calls it issues are those it issues for a row of       *)
(* zeros of the same length and operands: nothing it does depends on a     *)
(* predicate.                                                              *)
(***************************************************************************)
C14_NoReveal ==
    (sortIn # <<>> /\ lastRow # <<>> /\ sortIn.vis # "VIS_PUBLIC") =>
        LET n == numel(lastRow.before[1])
            zeros == Tuple([i \in 1..Len(lastRow.before) |->
                        Value(lastRow.before[i].elsize,
                              [w \in 1..Len(lastRow.before[i].buf) |-> 0])])
        IN /\ ~lastRow.revealed
           /\ lastRow.trace = SortRowOblivious(RowState(zeros, 0), n).trace

\* a non-public Sort has returned; its last row was out of order and went
\* through compare-exchange calls, while a public Sort reveals
C14_Witness ==
    /\ sortPc = "done"
    /\ sortIn.vis # "VIS_PUBLIC"
    /\ rowNo > 1
    /\ ~Ascending(Numbers(lastRow.before[1]))
    /\ Ascending(Numbers(lastRow.after[1]))
    /\ Len(lastRow.trace) > 1
    /\ ~lastRow.revealed

(***************************************************************************)
(* C15.  A request for parallel block execution, by a call of              *)
(* runBlockParallel or by a call of runRegion whose options ask for        *)
(* parallel execution and whose arity and block count are in order, fails  *)
(* with UnimplementedCapability: no kernel is invoked, no scope or         *)
(* binding is added and nothing is returned.                               *)
(***************************************************************************)
C15_ParallelUnimplemented ==
    (/\ events # <<>>
     /\ events[1].par
     /\ exStatus \notin {"ArityMismatch", "MalformedRegion"})
    => /\ exStatus = "UnimplementedCapability"
       /\ kernels = 0
       /\ scopes = <<RootScope>>
       /\ stack = <<>>
       /\ exResults = <<>>

\* the positions in events of the kernel starts, kernel ends and
\* terminator look-ups of activation a
EventsOf(a, e) ==
    SelectSeq([i \in 1..Len(events) |-> i],
              LAMBDA i : events[i].e = e /\ events[i].id = a)

\* the operations of a block that are not terminators
NonTerminators(ops) == SelectSeq(ops, LAMBDA o : o.kind # "return")

(***************************************************************************)
(* C16.  runBlock starts the kernels of a block in program order, one per  *)
(* operation and none twice; it starts a kernel only after the kernel      *)
(* before it has returned; it never hands a terminator to runKernel; it    *)
(* looks up the terminator's operands only after the last kernel has       *)
(* returned; a kernel that failed has not returned, so nothing is started  *)
(* after it; and when the block has returned, every operation of the       *)
(* block that is not a terminator has been run.                            *)
(***************************************************************************)
C16_KernelOrder ==
    \A a \in Activations :
        LET ops == events[a].region.ops
            starts == EventsOf(a, "start")
            ends == EventsOf(a, "end")
            terms == EventsOf(a, "term")
        IN /\ \A k \in 1..Len(starts) :
                 /\ events[starts[k]].pc = k
                 /\ ops[k].kind # "return"
                 /\ k > 1 => (Len(ends) >= k - 1 /\ ends[k - 1] < starts[k])
           /\ \A k \in 1..Len(ends) : events[ends[k]].pc = k /\ starts[k] < ends[k]
           /\ Len(terms) <= 1
           /\ terms # <<>> =>
                 /\ Len(ends) = Len(starts)
                 /\ \A k \in 1..Len(ends) : ends[k] < terms[1]
           /\ (Finished(a) /\ exStatus \in {"running", "returned"})
                 => Len(starts) = Len(NonTerminators(ops))

(***************************************************************************)
(* C17.  From every live scope and for every key, lookupValue returns the  *)
(* binding of the key in the nearest scope of the parent chain that binds  *)
(* it, and misses exactly when no scope of the chain binds it.  A step in  *)
(* which the look-up of an operand of the current operation misses ends    *)
(* in UndefinedValue, with the scopes and the results as they were.        *)
(***************************************************************************)
LookupIsNearest ==
    \A s \in 1..Len(scopes) : \A key \in Ids :
        LET l == lookupValue(scopes, s, key)
        IN IF Binders(scopes, s, key) = {}
           THEN l = NotFound
           ELSE l.found /\ NearestBindingIs(scopes, s, key, l.val)

\* the operands the next step of runBlock looks up
NextOperands ==
    IF Top.pc <= Len(without_terminator(Top.region.ops))
    THEN TopOp.operands
    ELSE IF HasTerminator(Top.region.ops)
         THEN getTerminator(Top.region.ops).operands
         ELSE <<>>

MissIsFatal ==
    (/\ exStatus = "running" /\ call = <<>> /\ stack # <<>>
     /\ ~Top.await
     /\ \E i \in 1..Len(NextOperands) :
           Binders(scopes, Top.scope, NextOperands[i]) = {})
    => /\ exStatus' = "UndefinedValue"
       /\ scopes' = scopes
       /\ exResults' = exResults

C17_LookupValue == []LookupIsNearest /\ [][MissIsFatal]_vars

\* a region has returned the value its own scope bound to a key that the
\* enclosing scope binds to another value
C17_Witness ==
    /\ JustReturned /\ exStatus = "running"
    /\ HasTerminator(retOuter.region.ops)
    /\ \E i \in 1..Len(exResults) :
          LET key == getTerminator(retOuter.region.ops).operands[i]
          IN /\ key \in DOMAIN retOuter.scope.symbols
             /\ lookupValue(scopes, Top.scope, key).found
             /\ lookupValue(scopes, Top.scope, key).val # exResults[i]

\* q holds each of 0..n-1 once
IsPermutation(q, n) ==
    /\ Len(q) = n
    /\ \A v \in 0..(n - 1) : \E p \in 1..n : q[p] = v

\* positions a and b differ in one bit of their binary notation
DifferInOneBit(a, b) ==
    LET lo == IF a < b THEN a ELSE b
        d == IF a < b THEN b - a ELSE a - b
    IN has_single_bit(d) /\ (lo \div d) % 2 = 0

(***************************************************************************)
(* C18.  For n = 2^k parallelBitonicSort goes through k(k+1)/2 stages and  *)
(* nothing else.  Each stage permutes by an index list that is a           *)
(* permutation of 0..n-1 whose entry p of the first half and entry p of    *)
(* the second half are partners of the network (they differ in one bit),   *)
(* issues one compare-exchange of the first half against the second half,  *)
(* and permutes back by an index list that undoes the first.               *)
(***************************************************************************)
C18_StageSchedule ==
    (rowPc \in {"parallel", "sequential", "public"} /\ has_single_bit(RowLen)) =>
        LET n == RowLen
            k == Log2(n)
            stages == (k * (k + 1)) \div 2
            tr == outPar.a.trace
        IN /\ outPar.ok
           /\ Len(Schedule(n)) = stages
           /\ Len(tr) = 3 * stages
           /\ \A j \in 1..stages :
                 LET fwd == tr[3 * j - 2]
                     cas == tr[3 * j - 1]
                     inv == tr[3 * j]
                 IN /\ fwd = PermuteStep(Schedule(n)[j])
                    /\ IsPermutation(fwd.index, n)
                    /\ \A p \in 1..(n \div 2) :
                          DifferInOneBit(fwd.index[p], fwd.index[p + n \div 2])
                    /\ cas = CmpSwapStep(0, n \div 2, n \div 2, TRUE)
                    /\ inv.op = "permute"
                    /\ Len(inv.index) = n
                    /\ \A i \in 1..n : fwd.index[inv.index[i] + 1] = i - 1

\* parallelBitonicSort has run on a longest row, which was not in order
C18_Witness ==
    /\ rowPc = "parallel"
    /\ RowLen = 2 ^ MaxLog
    /\ outPar.ok
    /\ Len(outPar.a.trace) = 3 * ((MaxLog * (MaxLog + 1)) \div 2)
    /\ outPar.a.vals # rowA

\* every compare-exchange of the trace has a length of at least one and
\* windows that lie in the row, the x window wholly before the y window
WindowsValid(trace, len) ==
    \A j \in 1..Len(trace) :
        trace[j].op = "cmpSwap" =>
            /\ len > 1
            /\ trace[j].n >= 1
            /\ 0 <= trace[j].x
            /\ trace[j].x + trace[j].n <= trace[j].y
            /\ trace[j].y + trace[j].n <= len

(***************************************************************************)
(* C19.  Every compare-exchange issued by sequentialBitonicSort on a row   *)
(* of any length, and by parallelBitonicSort on a row of a power-of-two    *)
(* length, has a length of at least one and two windows inside the row     *)
(* that do not overlap, x before y; rows of length 0 and 1 get none.       *)
(***************************************************************************)
C19_WindowsValid ==
    /\ (rowPc \in {"parallel", "sequential", "public"} /\ outPar.ok)
          => /\ WindowsValid(outPar.a.trace, RowLen)
             /\ WindowsValid(outPar.b.trace, RowLen)
    /\ rowPc \in {"sequential", "public"}
          => /\ WindowsValid(outSeq.a.trace, RowLen)
             /\ WindowsValid(outSeq.b.trace, RowLen)

\* sequentialBitonicSort has run on a row whose length is not a power of
\* two and has issued compare-exchanges of unequal split, whose windows
\* are shorter than the distance between them: one of two or more
\* elements, and one that does not start at the start of the row
C19_Witness ==
    /\ rowPc = "sequential"
    /\ ~has_single_bit(RowLen)
    /\ \E j \in 1..Len(outSeq.a.trace) :
          /\ outSeq.a.trace[j].op = "cmpSwap"
          /\ outSeq.a.trace[j].n > 1
          /\ outSeq.a.trace[j].y + outSeq.a.trace[j].n = RowLen
          /\ outSeq.a.trace[j].y - outSeq.a.trace[j].x > outSeq.a.trace[j].n
    /\ \E j \in 1..Len(outSeq.a.trace) :
          /\ outSeq.a.trace[j].op = "cmpSwap"
          /\ outSeq.a.trace[j].x > 0
          /\ outSeq.a.trace[j].y - outSeq.a.trace[j].x > outSeq.a.trace[j].n

\* element e of a tensor of the key's shape belongs to the row at indices
InRow(e, indices) ==
    \A k \in 1..rank :
        k # sortIn.sort_dim + 1 => MultiIndex(key_shape, e)[k] = indices[k]

\* the words of element e of tensor t
TensorElem(t, e) == SubSeq(t.buf, e * t.elsize + 1, (e + 1) * t.elsize)

\* what one row comes out as, where that is a function of the row
SortedRow(vals) ==
    IF sortIn.vis = "VIS_PUBLIC"
    THEN PermuteAll(vals, stable_sort(vals))
    ELSE SortRowOblivious(RowState(vals, sortIn.junk), numel(vals[1])).vals

\* the outputs when the rows are processed in the given order
RECURSIVE ResultsInOrder(_, _, _)
ResultsInOrder(res, order, k) ==
    IF k > Len(order)
    THEN res
    ELSE LET indices == rows[order[k]]
             vals == getValuesToSort(sortIn.inputs, indices, sortIn.sort_dim,
                                     sort_dim_elements)
             next == WriteBack(res, SortedRow(vals), indices, sortIn.sort_dim)
         IN Then(next, ResultsInOrder(next, order, k + 1))

\* a step that processes a row writes the elements of that row, once
\* each, and leaves every other element of every output as it was
RowWritesOwnRegion ==
    rowNo' = rowNo + 1 =>
        \A i \in 1..Len(results) : \A e \in 0..(Numel(key_shape) - 1) :
            IF InRow(e, rows[rowNo + 1])
            THEN /\ written'[i][e + 1] = written[i][e + 1] + 1
                 /\ TensorElem(results'[i], e)
                       = ElemAt(lastRow'.after[i],
                                MultiIndex(key_shape, e)[sortIn.sort_dim + 1])
            ELSE /\ written'[i][e + 1] = written[i][e + 1]
                 /\ TensorElem(results'[i], e) = TensorElem(results[i], e)

\* no element is written twice; when Sort returns every element has been
\* written, and the outputs are those of every other order of the rows
WrittenOnce ==
    /\ \A i \in 1..Len(written) : \A e \in 1..Len(written[i]) :
          /\ written[i][e] <= 1
          /\ sortPc = "done" => written[i][e] = 1
    /\ (sortPc = "done" /\ (sortIn.is_stable \/ sortIn.vis # "VIS_PUBLIC"))
          => \A order \in Perms(1..Len(rows)) :
                ResultsInOrder(Allocate(sortIn.inputs, sortIn.junk), order, 1)
                   = results

(***************************************************************************)
(* C20.  Each row's write-back writes exactly the output elements whose    *)
(* indices off the sort dimension are the row's, every element of every    *)
(* output is written exactly once by the time Sort returns, and the        *)
(* outputs are the same whatever the order in which the rows are           *)
(* processed.                                                              *)
(***************************************************************************)
C20_DisjointCover == []WrittenOnce /\ [][RowWritesOwnRegion]_vars

\* Sort has returned from a tensor of several rows of several elements,
\* sorted along the first dimension, so that a row's elements are apart
C20_Witness ==
    /\ sortPc = "done"
    /\ rank = 2
    /\ sortIn.sort_dim = 0
    /\ Len(sortIn.inputs) = 2
    /\ rowNo = Len(rows) /\ rowNo > 1
    /\ results[1] # sortIn.inputs[1]
    /\ \A e \in 1..Len(written[2]) : written[2][e] = 1

====
